---- MODULE Spec2Model ----
(***************************************************************************)
(* A model of the Videos request of yt-api (src/src/videos.rs): the        *)
(* builder (new, id), the deferred executor (<Videos as Future>::poll with *)
(* its async block: encode, GET, parse) and the Response schema that       *)
(* serde_json::from_str deserializes the body against.                     *)
(*                                                                         *)
(* Text is modelled as a sequence of tokens: a token is a run of           *)
(* alphanumeric characters ("ABC") or one single other character (",").    *)
(* Concatenation of text is \o.                                            *)
(***************************************************************************)
EXTENDS Integers, Sequences, FiniteSets, TLC

VARIABLES
    v,          \* the Videos value: [future, data]
    alive,      \* FALSE once the value was moved into a call that panicked
    net,        \* the transport (surf) of the one GET this value may issue
    requests,   \* the URLs of the HTTP GETs issued so far, in order
    yielded,    \* the values poll returned as Poll::Ready, in order
    last,       \* the most recent call on the value and how it ended
    polls,      \* the number of poll calls made
    idCalls,    \* the number of id calls made
    videos      \* two more Videos values, each with its own transport,
                \* requests, yielded values and counters (PairSpec)

vars == <<v, alive, net, requests, yielded, last, polls, idCalls, videos>>

\* Bounds of the exploration.
MaxPolls == 4
MaxIdCalls == 2
MaxPairPolls == 2
MaxPairIdCalls == 1

----------------------------------------------------------------------------
(* Option<T> and Result<T, E> *)

None == [some |-> FALSE]
Some(x) == [some |-> TRUE, v |-> x]

Ok(x) == [ok |-> TRUE, v |-> x]
Err(e) == [ok |-> FALSE, e |-> e]

----------------------------------------------------------------------------
(* The query encoding: serde_urlencoded::to_string(&data) *)

\* form_urlencoded::byte_serialize on one token: alphanumeric runs and
\* * - . _ are kept, a space becomes +, any other byte becomes %XX.
EncodeToken(t) ==
    CASE t = " " -> "+"
      [] t = "," -> "%2C"
      [] t = "&" -> "%26"
      [] t = "=" -> "%3D"
      [] t = "+" -> "%2B"
      [] t = "%" -> "%25"
      [] t = "?" -> "%3F"
      [] t = "/" -> "%2F"
      [] t = "#" -> "%23"
      [] OTHER -> t

\* A mutant of FormEncode: the value is written as it is.
FormEncodeRaw(s) == s

FormEncode(s) == [i \in 1..Len(s) |-> EncodeToken(s[i])]

\* An ApiKey that its Serialize impl cannot write as a query value.
UnencodableKey == <<"{malformed}">>

\* <ApiKey as Serialize>::serialize: the credential string, as a value.
SerializeApiKey(key) ==
    IF key = UnencodableKey THEN Err("Custom: unsupported value") ELSE Ok(key)

\* A mutant of SerializeVideosData: the id is written also when it is None
\* (the skip_serializing_if attribute is missing), as an empty value.
SerializeVideosDataNoSkip(data) ==
    <<[name |-> <<"key">>, value |-> SerializeApiKey(data.key)],
      [name |-> <<"part">>, value |-> Ok(data.part)],
      [name |-> <<"id">>, value |-> Ok(IF data.id.some THEN data.id.v ELSE <<>>)]>>

\* #[derive(Serialize)] #[serde(rename_all = "camelCase")] on VideosData:
\* the fields in declaration order, id skipped when it is None.
SerializeVideosData(data) ==
    <<[name |-> <<"key">>, value |-> SerializeApiKey(data.key)],
      [name |-> <<"part">>, value |-> Ok(data.part)]>>
    \o (IF data.id.some
        THEN <<[name |-> <<"id">>, value |-> Ok(data.id.v)]>>
        ELSE <<>>)

RECURSIVE JoinPairs(_)
\* name=value pairs joined by &, names and values form-encoded.
JoinPairs(pairs) ==
    IF pairs = <<>> THEN <<>>
    ELSE LET p == pairs[1]
             one == FormEncode(p.name) \o <<"=">> \o FormEncode(p.value.v)
         IN IF Len(pairs) = 1 THEN one
            ELSE one \o <<"&">> \o JoinPairs(Tail(pairs))

\* serde_urlencoded::to_string(&data): Err when a field cannot be written.
UrlEncodedToString(data) ==
    LET pairs == SerializeVideosData(data)
        bad == {i \in 1..Len(pairs) : ~pairs[i].value.ok}
    IN IF bad # {}
       THEN Err(pairs[CHOOSE i \in bad : \A j \in bad : i <= j].value.e)
       ELSE Ok(JoinPairs(pairs))

\* Videos::URL
URL == <<"https", ":", "/", "/", "www.googleapis.com", "/", "youtube", "/",
         "v3", "/", "videos">>

\* format!("{}?{}", Self::URL, query)
FormatUrl(query) == URL \o <<"?">> \o query

----------------------------------------------------------------------------
(* JSON documents and serde's deserialization of the Response schema *)

JStr(s) == [t |-> "str", s |-> s]
JNum(n) == [t |-> "num", n |-> n]
JFloat == [t |-> "float"]
JNull == [t |-> "null"]
JAbsent == [t |-> "absent"]
JObj(f) == [t |-> "obj", o |-> f]
JArr(s) == [t |-> "arr", a |-> s]

\* A body the transport hands over: a JSON document, or text that is none.
Doc(j) == [json |-> TRUE, value |-> j]
Garbage(text) == [json |-> FALSE, text |-> text]

\* The RFC 3339 timestamps chrono parses, with the UTC instant each denotes.
Rfc3339 ==
    [x \in {"2020-01-01T00:00:00Z", "2020-01-01T01:00:00+01:00"} |->
        "2020-01-01T00:00:00Z"]

\* <String as Deserialize>
ParseString(j) == IF j.t = "str" THEN Ok(j.s) ELSE Err("invalid type")

\* <i64 as Deserialize>
ParseI64(j) == IF j.t = "num" THEN Ok(j.n) ELSE Err("invalid type")

\* <u64 as Deserialize>
ParseU64(j) ==
    IF j.t = "num"
    THEN (IF j.n >= 0 THEN Ok(j.n) ELSE Err("invalid value"))
    ELSE Err("invalid type")

\* <DateTime<Utc> as Deserialize>
ParseDateTime(j) ==
    IF j.t = "str"
    THEN (IF j.s \in DOMAIN Rfc3339 THEN Ok(Rfc3339[j.s])
          ELSE Err("invalid value"))
    ELSE Err("invalid type")

\* The value of field name of the JSON object o, JAbsent when it has none.
Get(o, name) == IF name \in DOMAIN o THEN o[name] ELSE JAbsent

\* A mutant of Required: an absent field reads as an empty string
\* (#[serde(default)]).
RequiredDefaulted(j, parsed) ==
    IF j.t = "absent" THEN Ok("") ELSE parsed

\* A field of a type that is not an Option, parsed being the result of its
\* type's deserializer on j: absent is an error.
Required(j, parsed) ==
    IF j.t = "absent" THEN Err("missing field") ELSE parsed

\* A mutant of Optional: an absent field is an error, as for Required.
OptionalStrict(j, parsed) ==
    IF j.t = "absent" THEN Err("missing field")
    ELSE IF j.t = "null" THEN Ok(None)
    ELSE IF parsed.ok THEN Ok(Some(parsed.v)) ELSE parsed

\* A field of type Option<T>: absent or null is None.
Optional(j, parsed) ==
    IF j.t = "absent" THEN Ok(None)
    ELSE IF j.t = "null" THEN Ok(None)
    ELSE IF parsed.ok THEN Ok(Some(parsed.v)) ELSE parsed

\* A field of a struct: its name, its name in the document (camelCase where
\* the struct says so) and its type, T standing for Option<T> with option.
Plain(rust, json, ty) ==
    [rust |-> rust, json |-> json, ty |-> ty, option |-> FALSE]
Opt(rust, json, ty) ==
    [rust |-> rust, json |-> json, ty |-> ty, option |-> TRUE]

\* struct Response
Response ==
    <<Plain("kind", "kind", "String"),
      Plain("etag", "etag", "String"),
      Opt("next_page_token", "nextPageToken", "String"),
      Opt("prev_page_token", "prevPageToken", "String"),
      Plain("page_info", "pageInfo", "PageInfo"),
      Plain("items", "items", "Vec<VideoResult>")>>

\* struct PageInfo
PageInfo ==
    <<Plain("total_results", "totalResults", "i64"),
      Plain("results_per_page", "resultsPerPage", "i64")>>

\* struct VideoResult
VideoResult ==
    <<Plain("kind", "kind", "String"),
      Plain("etag", "etag", "String"),
      Plain("id", "id", "String"),
      Plain("snippet", "snippet", "Snippet"),
      Plain("content_details", "contentDetails", "ContentDetails")>>

\* struct Snippet
Snippet ==
    <<Opt("published_at", "publishedAt", "DateTime<Utc>"),
      Opt("channel_id", "channelId", "String"),
      Opt("title", "title", "String"),
      Opt("description", "description", "String"),
      Opt("thumbnails", "thumbnails", "Thumbnails"),
      Opt("channel_title", "channelTitle", "String"),
      Opt("category_id", "categoryId", "String"),
      Opt("live_broadcast_content", "liveBroadcastContent", "String")>>

\* struct Thumbnails
Thumbnails ==
    <<Opt("default", "default", "Thumbnail"),
      Opt("medium", "medium", "Thumbnail"),
      Opt("high", "high", "Thumbnail"),
      Opt("standard", "standard", "Thumbnail"),
      Opt("maxres", "maxres", "Thumbnail")>>

\* struct Thumbnail
Thumbnail ==
    <<Plain("url", "url", "String"),
      Opt("width", "width", "u64"),
      Opt("height", "height", "u64")>>

\* struct ContentDetails
ContentDetails ==
    <<Opt("duration", "duration", "String"),
      Opt("dimension", "dimension", "String"),
      Opt("definition", "definition", "String")>>

\* The fields of the struct named ty.
Fields(ty) ==
    CASE ty = "Response" -> Response
      [] ty = "PageInfo" -> PageInfo
      [] ty = "VideoResult" -> VideoResult
      [] ty = "Snippet" -> Snippet
      [] ty = "Thumbnails" -> Thumbnails
      [] ty = "Thumbnail" -> Thumbnail
      [] ty = "ContentDetails" -> ContentDetails

\* A field by its declared type: Option<T> or not.
FieldValue(f, j, parsed) ==
    IF f.option THEN Optional(j, parsed) ELSE Required(j, parsed)

\* The struct built so far with one more field, or the first error.
WithField(acc, f, r) ==
    IF ~acc.ok THEN acc
    ELSE IF ~r.ok THEN r
    ELSE Ok(acc.v @@ (f.rust :> r.v))

\* A mutant of WithElement: the element is put in front of those built so
\* far.
WithElementInFront(acc, r) ==
    IF ~acc.ok THEN acc
    ELSE IF ~r.ok THEN r
    ELSE Ok(<<r.v>> \o acc.v)

\* The Vec built so far with one more element, or the first error.
WithElement(acc, r) ==
    IF ~acc.ok THEN acc
    ELSE IF ~r.ok THEN r
    ELSE Ok(Append(acc.v, r.v))

RECURSIVE Deserialize(_, _)
RECURSIVE DeserializeStruct(_, _, _)
RECURSIVE DeserializeSeq(_, _, _)
RECURSIVE DeserializeVec(_, _, _)

\* The derived Deserialize impl of a struct, on the JSON object o (which
\* has no key twice): its first n fields. All or nothing: every field
\* deserialized, or the first error; keys of o that the struct does not
\* declare are ignored.
DeserializeStruct(fields, n, o) ==
    IF n = 0 THEN Ok(<<>>)
    ELSE WithField(DeserializeStruct(fields, n - 1, o), fields[n],
                   FieldValue(fields[n], Get(o, fields[n].json),
                              Deserialize(fields[n].ty,
                                          Get(o, fields[n].json))))

\* The derived Deserialize impl of a struct, on the JSON array a: the fields
\* by position (visit_seq), the first n of them.
DeserializeSeq(fields, n, a) ==
    IF n = 0 THEN Ok(<<>>)
    ELSE WithField(DeserializeSeq(fields, n - 1, a), fields[n],
                   FieldValue(fields[n], a[n],
                              Deserialize(fields[n].ty, a[n])))

\* <Vec<ty> as Deserialize>: the first n elements of the JSON array a, in
\* the array's order.
DeserializeVec(ty, n, a) ==
    IF n = 0 THEN Ok(<<>>)
    ELSE WithElement(DeserializeVec(ty, n - 1, a), Deserialize(ty, a[n]))

\* <ty as Deserialize>::deserialize on the JSON value j.
Deserialize(ty, j) ==
    CASE ty = "String" -> ParseString(j)
      [] ty = "i64" -> ParseI64(j)
      [] ty = "u64" -> ParseU64(j)
      [] ty = "DateTime<Utc>" -> ParseDateTime(j)
      [] ty = "Vec<VideoResult>" ->
            IF j.t # "arr" THEN Err("invalid type")
            ELSE DeserializeVec("VideoResult", Len(j.a), j.a)
      [] OTHER ->
            IF j.t = "obj"
            THEN DeserializeStruct(Fields(ty), Len(Fields(ty)), j.o)
            ELSE IF j.t = "arr"
            THEN (IF Len(j.a) = Len(Fields(ty))
                  THEN DeserializeSeq(Fields(ty), Len(j.a), j.a)
                  ELSE Err("invalid length"))
            ELSE Err("invalid type")

\* serde_json::from_str::<Response>(&response)
FromStr(body) ==
    IF body.json THEN Deserialize("Response", body.value) ELSE Err("syntax")

----------------------------------------------------------------------------
(* enum Error and the conversions into it *)

\* <surf::Error as Display>::to_string: the message of the transport error.
SurfToString(surf_error) == surf_error.msg

\* A mutant of FromSurfError: the transport's message is replaced.
FromSurfErrorNoMessage(surf_error) ==
    [variant |-> "Connection", string |-> "connection failed"]

\* impl From<surf::Error> for Error
FromSurfError(surf_error) ==
    [variant |-> "Connection", string |-> SurfToString(surf_error)]

\* A mutant of DeserializationContext: the error carries the parser's
\* diagnostic in place of the body.
DeserializationContextDiagnostic(response, source) ==
    [variant |-> "Deserialization", string |-> Garbage(source),
     source |-> source]

\* A mutant of DeserializationContext: the parse failure is reported as a
\* failure of the connection.
DeserializationAsConnection(response, source) ==
    [variant |-> "Connection", string |-> source]

\* .with_context(move || Deserialization { string: response })
DeserializationContext(response, source) ==
    [variant |-> "Deserialization", string |-> response, source |-> source]

\* .context(Serialization)
SerializationContext(source) ==
    [variant |-> "Serialization", source |-> source]

----------------------------------------------------------------------------
(* The transport: surf::get(&url).recv_string() *)

Idle == [kind |-> "idle"]
Waiting == [kind |-> "waiting"]
Body(b) == [kind |-> "body", body |-> b]
Failure(e) == [kind |-> "error", error |-> e]

----------------------------------------------------------------------------
(* struct Videos, its builder and its Future impl *)

PollPending == [ready |-> FALSE]
PollReady(x) == [ready |-> TRUE, value |-> x]

\* A mutant of Take: the slot keeps its value (a clone in place of a take).
TakeKeep(opt) == [taken |-> opt, left |-> opt]

\* Option::take: the value, and the None left behind in the slot.
Take(opt) == [taken |-> opt, left |-> None]

\* Videos::new
VideosNew(key) ==
    [future |-> None,
     data |-> Some([key |-> key,
                    part |-> <<"snippet", ",", "contentDetails">>,
                    id |-> None])]

\* The panics of the code: Option::unwrap() on a None value, and an async
\* block resumed after completion.
NoPanic == "none"
UnwrapNone == "called Option::unwrap() on a None value"
ResumedAfterCompletion == "async fn resumed after completion"

\* A mutant of VideosId: the config is built anew around the key and the id,
\* its part left at the default of String.
VideosIdFreshData(self, id) ==
    LET t == Take(self.data)
    IN IF ~t.taken.some
       THEN [panic |-> UnwrapNone, self |-> [self EXCEPT !.data = t.left]]
       ELSE [panic |-> NoPanic,
             self |-> [self EXCEPT
                          !.data = Some([key |-> t.taken.v.key,
                                         part |-> <<>>,
                                         id |-> Some(id)])]]

\* A mutant of VideosId: an id that is already set is kept.
VideosIdKeepFirst(self, id) ==
    LET t == Take(self.data)
    IN IF ~t.taken.some
       THEN [panic |-> UnwrapNone, self |-> [self EXCEPT !.data = t.left]]
       ELSE [panic |-> NoPanic,
             self |-> [self EXCEPT
                          !.data = Some(IF t.taken.v.id.some THEN t.taken.v
                                        ELSE [t.taken.v EXCEPT
                                                 !.id = Some(id)])]]

\* Videos::id: the value returned, or the panic of the unwrap of an empty
\* data slot, which drops the value.
VideosId(self, id) ==
    LET t == Take(self.data)
    IN IF ~t.taken.some
       THEN [panic |-> UnwrapNone, self |-> [self EXCEPT !.data = t.left]]
       ELSE [panic |-> NoPanic,
             self |-> [self EXCEPT
                          !.data = Some([t.taken.v EXCEPT !.id = Some(id)])]]

\* The async block as created: it owns data and has not run yet.
AsyncBlock(data) == [state |-> "Unresumed", data |-> data]

\* A mutant of AwaitRecvString: a failure of the transport is not reported;
\* the block stays at the await as if the GET were tried again.
AwaitRecvStringRetries(fut, n) ==
    IF n.kind \in {"waiting", "error"}
    THEN [fut |-> [fut EXCEPT !.state = "Suspend0"], out |-> PollPending]
    ELSE [fut |-> [fut EXCEPT !.state = "Returned"],
          out |-> PollReady(IF FromStr(n.body).ok THEN Ok(FromStr(n.body).v)
                            ELSE Err(DeserializationContext(
                                         n.body, FromStr(n.body).e)))]

\* A mutant of AwaitRecvString: a poll that finds the transport still
\* waiting gives up with a Connection error.
AwaitRecvStringTimesOut(fut, n) ==
    IF n.kind = "waiting"
    THEN [fut |-> [fut EXCEPT !.state = "Returned"],
          out |-> PollReady(Err([variant |-> "Connection",
                                 string |-> "timed out"]))]
    ELSE IF n.kind = "error"
    THEN [fut |-> [fut EXCEPT !.state = "Returned"],
          out |-> PollReady(Err(FromSurfError(n.error)))]
    ELSE [fut |-> [fut EXCEPT !.state = "Returned"],
          out |-> PollReady(IF FromStr(n.body).ok THEN Ok(FromStr(n.body).v)
                            ELSE Err(DeserializationContext(
                                         n.body, FromStr(n.body).e)))]

\* The tail of the async block from the await of recv_string on: n is the
\* state of the transport as this poll finds it.
AwaitRecvString(fut, n) ==
    IF n.kind = "waiting"
    THEN [fut |-> [fut EXCEPT !.state = "Suspend0"], out |-> PollPending]
    ELSE IF n.kind = "error"
    THEN [fut |-> [fut EXCEPT !.state = "Returned"],
          out |-> PollReady(Err(FromSurfError(n.error)))]
    ELSE LET response == n.body
             parsed == FromStr(response)
         IN [fut |-> [fut EXCEPT !.state = "Returned"],
             out |-> PollReady(IF parsed.ok THEN Ok(parsed.v)
                               ELSE Err(DeserializationContext(response,
                                                               parsed.e)))]

\* A mutant of PollReturned: a block that has returned runs its last step
\* again, and yields again what the transport answered.
PollReturnedAgain(fut, n) ==
    IF n.kind \in {"body", "error"}
    THEN LET r == AwaitRecvString(fut, n)
         IN [fut |-> r.fut, net |-> n, out |-> r.out, panic |-> NoPanic,
             issued |-> <<>>]
    ELSE [fut |-> fut, net |-> n, out |-> PollPending,
          panic |-> ResumedAfterCompletion, issued |-> <<>>]

\* A poll of the async block after it has returned panics.
PollReturned(fut, n) ==
    [fut |-> fut, net |-> n, out |-> PollPending,
     panic |-> ResumedAfterCompletion, issued |-> <<>>]

\* A mutant of ReturnSerializationError: the failure of the encoding is
\* dropped and the GET is issued with an empty query.
IgnoreSerializationError(fut, n, imm, e) ==
    [fut |-> AwaitRecvString(fut, imm).fut, net |-> imm,
     out |-> AwaitRecvString(fut, imm).out, panic |-> NoPanic,
     issued |-> <<FormatUrl(<<>>)>>]

\* The ? after .context(Serialization): the block returns the error of the
\* encoding before anything is sent.
ReturnSerializationError(fut, n, imm, e) ==
    [fut |-> [fut EXCEPT !.state = "Returned"], net |-> n,
     out |-> PollReady(Err(SerializationContext(e))),
     panic |-> NoPanic, issued |-> <<>>]

\* One poll of the boxed async block. n is the transport before the poll and
\* imm what the transport answers to a GET within the poll that issues it.
\* The result: the block, the transport, what the poll returned, the panic it
\* ended in and the URLs of the GETs it issued.
PollFuture(fut, n, imm) ==
    IF fut.state = "Unresumed"
    THEN LET query == UrlEncodedToString(fut.data)
         IN IF ~query.ok
            THEN ReturnSerializationError(fut, n, imm, query.e)
            ELSE LET url == FormatUrl(query.v)
                     r == AwaitRecvString(fut, imm)
                 IN [fut |-> r.fut, net |-> imm, out |-> r.out,
                     panic |-> NoPanic, issued |-> <<url>>]
    ELSE IF fut.state = "Suspend0"
    THEN LET r == AwaitRecvString(fut, n)
         IN [fut |-> r.fut, net |-> n, out |-> r.out, panic |-> NoPanic,
             issued |-> <<>>]
    ELSE PollReturned(fut, n)

\* A mutant of StartIfNone: the operation is created anew by every poll, from
\* the config it was first created from.
StartAlways(self) ==
    IF self.future.some
    THEN [panic |-> NoPanic,
          self |-> [self EXCEPT
                       !.future = Some(AsyncBlock(self.future.v.data))]]
    ELSE [panic |-> NoPanic,
          self |-> [future |-> Some(AsyncBlock(self.data.v)), data |-> None]]

\* The head of poll: if self.future.is_none() { ... }
StartIfNone(self) ==
    IF ~self.future.some
    THEN LET t == Take(self.data)
         IN IF ~t.taken.some
            THEN [panic |-> UnwrapNone, self |-> [self EXCEPT !.data = t.left]]
            ELSE [panic |-> NoPanic,
                  self |-> [future |-> Some(AsyncBlock(t.taken.v)),
                            data |-> t.left]]
    ELSE [panic |-> NoPanic, self |-> self]

\* <Videos as Future>::poll
VideosPoll(self, n, imm) ==
    LET s == StartIfNone(self)
    IN IF s.panic # NoPanic
       THEN [self |-> s.self, net |-> n, out |-> PollPending,
             panic |-> s.panic, issued |-> <<>>]
       ELSE LET r == PollFuture(s.self.future.v, n, imm)
            IN [self |-> [s.self EXCEPT !.future = Some(r.fut)],
                net |-> r.net, out |-> r.out, panic |-> r.panic,
                issued |-> r.issued]

----------------------------------------------------------------------------
(* The inputs *)

Keys == {<<"ABC">>, <<"k", "&", "id", "=", "x">>, UnencodableKey}

VideoIds == {<<"DnJgoWDxG2A">>, <<"a", "&", "id", "=", "b", " ", "c">>, <<>>}

SurfErrors ==
    {[type |-> "Io", msg |-> "connection refused"],
     [type |-> "Decode", msg |-> "invalid utf-8 sequence"]}

\* A thumbnail object with every field.
FullThumbnail(u) ==
    JObj("url" :> JStr(u) @@ "width" :> JNum(120) @@ "height" :> JNum(90))

\* A snippet object with every field.
FullSnippet ==
    JObj("publishedAt" :> JStr("2020-01-01T00:00:00Z")
         @@ "channelId" :> JStr("UC1")
         @@ "title" :> JStr("Rust")
         @@ "description" :> JStr("a talk")
         @@ "thumbnails" :>
                JObj("default" :> FullThumbnail("http://example/x.jpg")
                     @@ "medium" :> FullThumbnail("http://example/m.jpg")
                     @@ "high" :> FullThumbnail("http://example/h.jpg")
                     @@ "standard" :> FullThumbnail("http://example/s.jpg")
                     @@ "maxres" :> FullThumbnail("http://example/r.jpg"))
         @@ "channelTitle" :> JStr("Rust channel")
         @@ "categoryId" :> JStr("28")
         @@ "liveBroadcastContent" :> JStr("none"))

FullContentDetails ==
    JObj("duration" :> JStr("PT1H2M3S")
         @@ "dimension" :> JStr("2d")
         @@ "definition" :> JStr("hd"))

\* A well-formed body of two items: the first with every field of the
\* schema, the second with a title only.
FullDoc ==
    JObj("kind" :> JStr("youtube#videoListResponse")
         @@ "etag" :> JStr("e0")
         @@ "nextPageToken" :> JStr("next")
         @@ "prevPageToken" :> JStr("prev")
         @@ "pageInfo" :>
                JObj("totalResults" :> JNum(2) @@ "resultsPerPage" :> JNum(5))
         @@ "items" :>
                JArr(<<JObj("kind" :> JStr("youtube#video")
                            @@ "etag" :> JStr("e1")
                            @@ "id" :> JStr("DnJgoWDxG2A")
                            @@ "snippet" :> FullSnippet
                            @@ "contentDetails" :> FullContentDetails),
                       JObj("kind" :> JStr("youtube#video")
                            @@ "etag" :> JStr("e2")
                            @@ "id" :> JStr("second")
                            @@ "snippet" :> JObj("title" :> JStr("Go"))
                            @@ "contentDetails" :> JObj(<<>>))>>))

RECURSIVE PathsOf(_, _)
\* The paths of the fields of document j: the field names from the root, an
\* array element being named by its index.
PathsOf(j, prefix) ==
    IF j.t = "obj"
    THEN UNION {{Append(prefix, f)} \cup PathsOf(j.o[f], Append(prefix, f)) :
                f \in DOMAIN j.o}
    ELSE IF j.t = "arr"
    THEN UNION {PathsOf(j.a[i], Append(prefix, ToString(i))) :
                i \in 1..Len(j.a)}
    ELSE {}

RECURSIVE Without(_, _, _)
\* Document j without the fields whose paths are in S.
Without(j, prefix, S) ==
    IF j.t = "obj"
    THEN JObj([f \in {g \in DOMAIN j.o : Append(prefix, g) \notin S} |->
                  Without(j.o[f], Append(prefix, f), S)])
    ELSE IF j.t = "arr"
    THEN JArr([i \in 1..Len(j.a) |->
                  Without(j.a[i], Append(prefix, ToString(i)), S)])
    ELSE j

RECURSIVE With(_, _, _, _)
\* Document j with the value at path p replaced by val.
With(j, prefix, p, val) ==
    IF prefix = p THEN val
    ELSE IF j.t = "obj"
    THEN JObj([f \in DOMAIN j.o |-> With(j.o[f], Append(prefix, f), p, val)])
    ELSE IF j.t = "arr"
    THEN JArr([i \in 1..Len(j.a) |->
                  With(j.a[i], Append(prefix, ToString(i)), p, val)])
    ELSE j

FullPaths == PathsOf(FullDoc, <<>>)

\* The fields the schema declares with an Option type, by name.
OptionFields ==
    {"nextPageToken", "prevPageToken", "publishedAt", "channelId", "title",
     "description", "thumbnails", "channelTitle", "categoryId",
     "liveBroadcastContent", "default", "medium", "high", "standard",
     "maxres", "width", "height", "duration", "dimension", "definition"}

Last(p) == p[Len(p)]

\* FullDoc with one field absent, for every field of it.
OneAbsent == {Doc(Without(FullDoc, <<>>, {p})) : p \in FullPaths}

\* FullDoc with every field of an Option type absent.
MinimalDoc ==
    Doc(Without(FullDoc, <<>>, {p \in FullPaths : Last(p) \in OptionFields}))

\* FullDoc with its first item only.
OneItemDoc ==
    Doc(With(FullDoc, <<>>, <<"items">>, JArr(<<FullDoc.o["items"].a[1]>>)))

\* Bodies with a null, a value of another type, an unknown field, no item,
\* one item, the platform's error document, structs written as arrays, and
\* text that is no JSON.
OtherBodies ==
    {OneItemDoc,
     Doc(With(FullDoc, <<>>, <<"items", "1", "snippet", "title">>, JNull)),
     Doc(With(FullDoc, <<>>, <<"kind">>, JNull)),
     Doc(With(FullDoc, <<>>, <<"pageInfo", "totalResults">>, JFloat)),
     Doc(With(FullDoc, <<>>,
              <<"items", "1", "snippet", "thumbnails", "default", "width">>,
              JNum(-1))),
     Doc(With(FullDoc, <<>>, <<"items", "1", "snippet", "publishedAt">>,
              JStr("2020-01-01T01:00:00+01:00"))),
     Doc(With(FullDoc, <<>>, <<"items", "1", "snippet", "publishedAt">>,
              JStr("yesterday"))),
     Doc(JObj(FullDoc.o @@ "regionCode" :> JStr("NL"))),
     Doc(With(FullDoc, <<>>, <<"items">>, JArr(<<>>))),
     Doc(JObj("error" :> JObj("code" :> JNum(403)
                              @@ "message" :> JStr("forbidden")))),
     Doc(JArr(<<>>)),
     Doc(JArr(<<JStr("youtube#videoListResponse"), JStr("e0"), JNull,
                JStr("prev"), JArr(<<JNum(0), JNum(5)>>), JArr(<<>>)>>)),
     Garbage("<html>"),
     Garbage("")}

Bodies == OneAbsent \cup {Doc(FullDoc), MinimalDoc} \cup OtherBodies

\* What the transport may answer.
Outcomes == {Body(b) : b \in Bodies} \cup {Failure(e) : e \in SurfErrors}

----------------------------------------------------------------------------
(* The state machine *)

Init ==
    /\ \E key \in Keys : v = VideosNew(key)
    /\ alive = TRUE
    /\ net = Idle
    /\ requests = <<>>
    /\ yielded = <<>>
    /\ last = [op |-> "new", panic |-> NoPanic]
    /\ polls = 0
    /\ idCalls = 0
    /\ videos = <<>>

\* request = request.id(id)
Id(id) ==
    /\ alive
    /\ idCalls < MaxIdCalls
    /\ LET r == VideosId(v, id)
       IN /\ v' = r.self
          /\ alive' = (r.panic = NoPanic)
          /\ last' = [op |-> "id", panic |-> r.panic, id |-> id]
    /\ idCalls' = idCalls + 1
    /\ UNCHANGED <<net, requests, yielded, polls, videos>>

\* Pin::new(&mut request).poll(cx)
Poll(imm) ==
    /\ alive
    /\ polls < MaxPolls
    /\ LET r == VideosPoll(v, net, imm)
       IN /\ v' = r.self
          /\ net' = r.net
          /\ requests' = requests \o r.issued
          /\ yielded' = IF r.panic = NoPanic /\ r.out.ready
                        THEN Append(yielded, r.out.value)
                        ELSE yielded
          /\ last' = [op |-> "poll", panic |-> r.panic, out |-> r.out]
    /\ polls' = polls + 1
    /\ UNCHANGED <<alive, idCalls, videos>>

\* The transport hands over the body of the response.
Deliver(b) ==
    /\ net.kind = "waiting"
    /\ net' = Body(b)
    /\ UNCHANGED <<v, alive, requests, yielded, last, polls, idCalls, videos>>

\* The transport fails.
Fail(e) ==
    /\ net.kind = "waiting"
    /\ net' = Failure(e)
    /\ UNCHANGED <<v, alive, requests, yielded, last, polls, idCalls, videos>>

\* What the transport may answer within a poll: only the poll that issues
\* the GET reads it.
Answers == IF v.future.some THEN {Waiting} ELSE {Waiting} \cup Outcomes

Next ==
    \/ \E id \in VideoIds : Id(id)
    \/ \E imm \in Answers : Poll(imm)
    \/ \E b \in Bodies : Deliver(b)
    \/ \E e \in SurfErrors : Fail(e)

Spec == Init /\ [][Next]_vars

----------------------------------------------------------------------------
(* The request awaited: request.await, as in examples/videos.rs *)

\* What the transport answers to an awaited request: a body that parses, one
\* with a required field absent, text that is no JSON, or a failure.
AwaitBodies ==
    {OneItemDoc, Doc(Without(FullDoc, <<>>, {<<"etag">>})), Garbage("<html>")}
AwaitErrors == {[type |-> "Io", msg |-> "connection refused"]}
AwaitOutcomes ==
    {Body(b) : b \in AwaitBodies} \cup {Failure(e) : e \in AwaitErrors}

\* The builder call of an expression Videos::new(key).id(id).await: it comes
\* before the await.
Build(id) ==
    /\ ~v.future.some
    /\ Id(id)

\* One poll by the await: the caller polls until the value is yielded,
\* however often that takes. polls counts up to MaxPolls and goes on from 1.
Await(imm) ==
    /\ alive
    /\ ~(v.future.some /\ v.future.v.state = "Returned")
    /\ LET r == VideosPoll(v, net, imm)
       IN /\ v' = r.self
          /\ net' = r.net
          /\ requests' = requests \o r.issued
          /\ yielded' = IF r.panic = NoPanic /\ r.out.ready
                        THEN Append(yielded, r.out.value)
                        ELSE yielded
          /\ last' = [op |-> "poll", panic |-> r.panic, out |-> r.out]
    /\ polls' = IF polls < MaxPolls THEN polls + 1 ELSE 1
    /\ UNCHANGED <<alive, idCalls, videos>>

\* The transport ends the GET, with a body or with a failure.
Transport ==
    \/ \E b \in AwaitBodies : Deliver(b)
    \/ \E e \in AwaitErrors : Fail(e)

\* What the transport may answer within a poll by the await.
AwaitAnswers ==
    IF v.future.some THEN {Waiting} ELSE {Waiting} \cup AwaitOutcomes

AwaitNext ==
    \/ \E id \in VideoIds : Build(id)
    \/ \E imm \in AwaitAnswers : Await(imm)
    \/ Transport

\* The guard of Await. Every poll by the await changes polls, so this is
\* ENABLED <<\E imm \in AwaitAnswers : Await(imm)>>_vars.
AwaitEnabled ==
    /\ alive
    /\ ~(v.future.some /\ v.future.v.state = "Returned")

\* The caller keeps polling: WF_vars(\E imm \in AwaitAnswers : Await(imm))
\* with its ENABLED written out.
AwaitFairness ==
    \/ []<>~AwaitEnabled
    \/ []<><<\E imm \in AwaitAnswers : Await(imm)>>_vars

\* The caller keeps polling and the transport ends every GET it was given.
AwaitSpec ==
    /\ Init
    /\ [][AwaitNext]_vars
    /\ AwaitFairness
    /\ WF_vars(Transport)

----------------------------------------------------------------------------
(* Two Videos values in one program, polled in any interleaving *)

Instances == {1, 2}

PairKeys == {<<"ABC">>, <<"XYZ">>, UnencodableKey}
PairIds == {<<"DnJgoWDxG2A">>, <<"second">>}
PairBodies == {OneItemDoc, Garbage("<html>")}
PairErrors == {[type |-> "Io", msg |-> "connection refused"]}
PairOutcomes ==
    {Body(b) : b \in PairBodies} \cup {Failure(e) : e \in PairErrors}

\* A Videos value as new returns it, with the transport of its own GET.
Instance(key) ==
    [v |-> VideosNew(key), alive |-> TRUE, net |-> Idle, requests |-> <<>>,
     yielded |-> <<>>, polls |-> 0, idCalls |-> 0]

\* A mutant of TransportOf: the values share the connection of the first
\* one, once it is open.
TransportOfShared(all, i) ==
    IF all[1].net.kind = "idle" THEN all[i].net ELSE all[1].net

\* The transport a value's async block awaits: the request it made itself
\* by surf::get(&url).
TransportOf(all, i) == all[i].net

PairInit ==
    /\ videos \in [Instances -> {Instance(key) : key \in PairKeys}]
    /\ v = VideosNew(<<"ABC">>)
    /\ alive = TRUE
    /\ net = Idle
    /\ requests = <<>>
    /\ yielded = <<>>
    /\ last = [op |-> "new", panic |-> NoPanic]
    /\ polls = 0
    /\ idCalls = 0

\* videos[i] = videos[i].id(id)
PairId(i, id) ==
    /\ videos[i].alive
    /\ videos[i].idCalls < MaxPairIdCalls
    /\ videos' = [videos EXCEPT
                     ![i].v = VideosId(videos[i].v, id).self,
                     ![i].alive = (VideosId(videos[i].v, id).panic = NoPanic),
                     ![i].idCalls = @ + 1]
    /\ UNCHANGED <<v, alive, net, requests, yielded, last, polls, idCalls>>

\* Pin::new(&mut videos[i]).poll(cx)
PairPoll(i, imm) ==
    /\ videos[i].alive
    /\ videos[i].polls < MaxPairPolls
    /\ LET r == VideosPoll(videos[i].v, TransportOf(videos, i), imm)
       IN videos' = [videos EXCEPT
                        ![i].v = r.self,
                        ![i].net = IF r.issued = <<>> THEN @ ELSE r.net,
                        ![i].requests = @ \o r.issued,
                        ![i].yielded = IF r.panic = NoPanic /\ r.out.ready
                                       THEN Append(@, r.out.value)
                                       ELSE @,
                        ![i].polls = @ + 1]
    /\ UNCHANGED <<v, alive, net, requests, yielded, last, polls, idCalls>>

\* The transport of videos[i] hands over the body of the response.
PairDeliver(i, b) ==
    /\ videos[i].net.kind = "waiting"
    /\ videos' = [videos EXCEPT ![i].net = Body(b)]
    /\ UNCHANGED <<v, alive, net, requests, yielded, last, polls, idCalls>>

\* The transport of videos[i] fails.
PairFail(i, e) ==
    /\ videos[i].net.kind = "waiting"
    /\ videos' = [videos EXCEPT ![i].net = Failure(e)]
    /\ UNCHANGED <<v, alive, net, requests, yielded, last, polls, idCalls>>

\* What the transport may answer within a poll of videos[i].
PairAnswers(i) ==
    IF videos[i].v.future.some THEN {Waiting} ELSE {Waiting} \cup PairOutcomes

PairNext ==
    \E i \in Instances :
        \/ \E id \in PairIds : PairId(i, id)
        \/ \E imm \in PairAnswers(i) : PairPoll(i, imm)
        \/ \E b \in PairBodies : PairDeliver(i, b)
        \/ \E e \in PairErrors : PairFail(i, e)

PairSpec == PairInit /\ [][PairNext]_vars

----------------------------------------------------------------------------
(* Properties *)

Started == v.future.some

\* The async block has returned: the request is Completed or Failed.
Finished == v.future.some /\ v.future.v.state = "Returned"

\* C1: once poll was called on a request whose query encodes, exactly one
\* HTTP GET has been issued in total, the one for that query, however many
\* polls were made.
C1_ExactlyOneGet ==
    polls >= 1 =>
        /\ Started
        /\ UrlEncodedToString(v.future.v.data).ok =>
               requests = <<FormatUrl(UrlEncodedToString(v.future.v.data).v)>>

C1_Witness == polls >= 3 /\ Len(requests) = 1 /\ Len(yielded) = 1

\* C2: exactly one of the two slots of a Videos value is filled: data
\* before the first poll, future from the first poll on; no poll hits an
\* empty slot with an unwrap.
C2_OneSlotFilled ==
    /\ v.data.some # v.future.some
    /\ polls = 0 => v.data.some
    /\ polls >= 1 => v.future.some
    /\ last.op = "poll" => last.panic # UnwrapNone

C2_Witness ==
    polls >= 2 /\ idCalls >= 1 /\ alive /\ v.future.some /\ ~v.data.some

\* C3: no call of new or id panics, in any sequence of new, id and poll.
C3_BuilderNeverPanics == last.op \in {"new", "id"} => last.panic = NoPanic

\* C4: a request yields at most one value; once it has yielded it, no step
\* yields another, issues a GET or changes the operation.
C4_SingleUse ==
    /\ [](Len(yielded) <= 1)
    /\ [][Len(yielded) >= 1 =>
              /\ yielded' = yielded
              /\ requests' = requests
              /\ v'.future = v.future]_vars

C4_Witness ==
    Len(yielded) = 1 /\ last.op = "poll" /\ last.panic = ResumedAfterCompletion

\* C5: no GET is issued while the request is not started, whatever number of
\* id calls were made; a GET is issued only by the first poll.
C5_DeferredIO ==
    /\ [](~Started => requests = <<>>)
    /\ [][/\ requests' # requests => polls = 0 /\ polls' = 1
          /\ idCalls' # idCalls => requests' = requests]_vars

C5_Witness == idCalls >= 2 /\ polls = 0 /\ requests = <<>> /\ ~Started

\* C6: after a transport failure the request has yielded a Connection error
\* with the transport's message, and one GET was issued, however many polls
\* followed.
C6_ConnectionError ==
    (net.kind = "error" /\ Finished) =>
        /\ yielded =
               <<Err([variant |-> "Connection", string |-> net.error.msg])>>
        /\ Len(requests) = 1

C6_Witness == net.kind = "error" /\ Finished /\ polls >= 3

\* C7: a body that is no JSON, or does not match the schema, makes the
\* request yield a Deserialization error whose string is that body.
C7_RawBody ==
    (net.kind = "body" /\ Finished
        /\ (~net.body.json \/ ~FromStr(net.body).ok)) =>
        /\ Len(yielded) = 1
        /\ ~yielded[1].ok
        /\ yielded[1].e.variant = "Deserialization"
        /\ yielded[1].e.string.json = net.body.json
        /\ yielded[1].e.string = net.body

C7_Witness == net = Body(Garbage("<html>")) /\ Finished /\ Len(yielded) = 1

\* The object o has no field name.
Lacks(o, name) == name \notin DOMAIN o

\* The body is a JSON object without kind or etag, or with an item in items
\* that is an object without kind, etag or id.
LacksNamedRequired(b) ==
    /\ b.json
    /\ b.value.t = "obj"
    /\ \/ Lacks(b.value.o, "kind")
       \/ Lacks(b.value.o, "etag")
       \/ /\ ~Lacks(b.value.o, "items")
          /\ b.value.o["items"].t = "arr"
          /\ \E i \in 1..Len(b.value.o["items"].a) :
                LET item == b.value.o["items"].a[i]
                IN /\ item.t = "obj"
                   /\ \/ Lacks(item.o, "kind")
                      \/ Lacks(item.o, "etag")
                      \/ Lacks(item.o, "id")

\* C8: a body without a kind or etag at the top level, or without a kind,
\* etag or id in an item, yields a Deserialization error and no Response.
C8_MissingRequired ==
    (net.kind = "body" /\ Finished /\ LacksNamedRequired(net.body)) =>
        /\ Len(yielded) = 1
        /\ ~yielded[1].ok
        /\ yielded[1].e.variant = "Deserialization"

C8_Witness ==
    /\ net = Body(Doc(Without(FullDoc, <<>>, {<<"items", "2", "id">>})))
    /\ Finished
    /\ Len(yielded) = 1

\* The bodies made from FullDoc by leaving out one field, or all fields,
\* among those whose name is not in R.
AbsentOutside(R) ==
    LET others == {p \in FullPaths : Last(p) \notin R}
    IN {Doc(Without(FullDoc, <<>>, {p})) : p \in others}
       \cup {Doc(Without(FullDoc, <<>>, others))}

\* The bodies made from FullDoc by leaving out one field whose name is in R.
AbsentWithin(R) ==
    {Doc(Without(FullDoc, <<>>, {p})) : p \in {q \in FullPaths : Last(q) \in R}}

NamedRequired == {"kind", "etag", "id"}

\* The names of the fields whose absence the code rejects.
RequiredFields ==
    {"kind", "etag", "id", "pageInfo", "items", "snippet", "contentDetails",
     "totalResults", "resultsPerPage", "url"}

AbsentOutsideNamed == AbsentOutside(NamedRequired)
AbsentOutsideRequired == AbsentOutside(RequiredFields) \cup {MinimalDoc}
AbsentWithinRequired == AbsentWithin(RequiredFields)

\* C9, as claimed: a body with every kind, etag and id yields a Response,
\* whichever of the other fields are absent.
C9_OnlyNamedRequired ==
    (net.kind = "body" /\ Finished /\ net.body \in AbsentOutsideNamed) =>
        Len(yielded) = 1 /\ yielded[1].ok

\* C9, amended: the required fields are kind, etag, pageInfo (with its
\* totalResults and resultsPerPage) and items of the response, kind, etag,
\* id, snippet and contentDetails of an item, and url of a thumbnail. A body
\* with all of them yields a Response whichever of the other fields are
\* absent, each absent one reading as None; a body without one of them
\* yields a Deserialization error.
C9_RequiredFields ==
    (net.kind = "body" /\ Finished) =>
        /\ net.body \in AbsentOutsideRequired =>
               Len(yielded) = 1 /\ yielded[1].ok
        /\ net.body = MinimalDoc =>
               /\ ~yielded[1].v.next_page_token.some
               /\ ~yielded[1].v.prev_page_token.some
               /\ ~yielded[1].v.items[1].snippet.title.some
               /\ ~yielded[1].v.items[1].snippet.thumbnails.some
               /\ ~yielded[1].v.items[1].content_details.duration.some
        /\ net.body \in AbsentWithinRequired =>
               /\ Len(yielded) = 1
               /\ ~yielded[1].ok
               /\ yielded[1].e.variant = "Deserialization"

C9_Witness ==
    net = Body(MinimalDoc) /\ Finished /\ Len(yielded) = 1 /\ yielded[1].ok

\* The inverse of the form-encoding of one token.
DecodeToken(t) ==
    CASE t = "+" -> " "
      [] t = "%2C" -> ","
      [] t = "%26" -> "&"
      [] t = "%3D" -> "="
      [] t = "%2B" -> "+"
      [] t = "%25" -> "%"
      [] t = "%3F" -> "?"
      [] t = "%2F" -> "/"
      [] t = "%23" -> "#"
      [] OTHER -> t

FormDecode(s) == [i \in 1..Len(s) |-> DecodeToken(s[i])]

\* The query of an issued URL: what follows the endpoint and the ?.
QueryOf(url) == SubSeq(url, Len(URL) + 2, Len(url))

\* The places in query q where a pair named id begins.
IdPairs(q) ==
    {i \in 1..(Len(q) - 1) :
        q[i] = "id" /\ q[i + 1] = "=" /\ (i = 1 \/ q[i - 1] = "&")}

\* The encoded value of the pair of q that begins at i.
PairValue(q, i) ==
    LET ends == {k \in (i + 2)..Len(q) : q[k] = "&"}
        stop == IF ends = {} THEN Len(q) + 1
                ELSE CHOOSE k \in ends : \A m \in ends : k <= m
    IN SubSeq(q, i + 2, stop - 1)

\* C10: the issued query has no id pair when the config has no id, and
\* exactly one, with the id as its value, when it has one, also after
\* several id calls.
C10_IdPair ==
    Len(requests) >= 1 =>
        /\ Started
        /\ LET q == QueryOf(requests[1])
               id == v.future.v.data.id
           IN IF id.some
              THEN /\ Cardinality(IdPairs(q)) = 1
                   /\ \A i \in IdPairs(q) :
                         FormDecode(PairValue(q, i)) = id.v
              ELSE IdPairs(q) = {}

C10_Witness ==
    /\ Len(requests) = 1
    /\ idCalls = 2
    /\ Started
    /\ v.future.v.data.key = <<"k", "&", "id", "=", "x">>
    /\ v.future.v.data.id = Some(<<"a", "&", "id", "=", "b", " ", "c">>)

\* The config of the request: the data slot until the first poll, what the
\* async block owns from then on.
Config == IF v.future.some THEN v.future.v.data ELSE v.data.v

\* The places in query q where a pair of the given name begins.
PairsNamed(q, name) ==
    {i \in 1..(Len(q) - 1) :
        q[i] = name /\ q[i + 1] = "=" /\ (i = 1 \/ q[i - 1] = "&")}

\* C11: the part of the config is snippet,contentDetails in every state,
\* whatever id calls were made, and every issued query has exactly one part
\* pair, whose value decodes to snippet,contentDetails.
C11_PartInvariant ==
    /\ Config.part = <<"snippet", ",", "contentDetails">>
    /\ \A r \in 1..Len(requests) :
          /\ Cardinality(PairsNamed(QueryOf(requests[r]), "part")) = 1
          /\ \A i \in PairsNamed(QueryOf(requests[r]), "part") :
                FormDecode(PairValue(QueryOf(requests[r]), i))
                    = <<"snippet", ",", "contentDetails">>

C11_Witness ==
    /\ Len(requests) = 1
    /\ idCalls = 2
    /\ polls >= 1
    /\ Config.id = Some(<<"DnJgoWDxG2A">>)

\* The places in query q where a pair begins.
PairStarts(q) == {1} \cup {i + 1 : i \in {k \in 1..Len(q) : q[k] = "&"}}

\* The names of the pairs of a query, in their order.
PairOrder == <<"key", "part", "id">>

\* The query of the configuration {key: ABC, part: snippet,contentDetails,
\* id: DnJgoWDxG2A}.
ExampleQuery ==
    <<"key", "=", "ABC", "&", "part", "=", "snippet", "%2C",
      "contentDetails", "&", "id", "=", "DnJgoWDxG2A">>

\* C12: an issued URL is the endpoint, a ? and the query; the pairs of the
\* query are key, part and id in this order, each value form-encoded; the
\* example configuration yields key=ABC&part=snippet%2CcontentDetails&
\* id=DnJgoWDxG2A, and a response with one item yields a Response whose
\* first item has the title and the default thumbnail url of that item.
C12_UrlAndResponse ==
    /\ \A r \in 1..Len(requests) :
          /\ SubSeq(requests[r], 1, Len(URL) + 1) = URL \o <<"?">>
          /\ Cardinality(PairStarts(QueryOf(requests[r])))
                 = IF Config.id.some THEN 3 ELSE 2
          /\ \A i \in PairStarts(QueryOf(requests[r])) :
                /\ QueryOf(requests[r])[i]
                       = PairOrder[Cardinality(
                             {j \in PairStarts(QueryOf(requests[r])) :
                                 j <= i})]
                /\ QueryOf(requests[r])[i + 1] = "="
                /\ FormDecode(PairValue(QueryOf(requests[r]), i))
                       = CASE QueryOf(requests[r])[i] = "key" -> Config.key
                           [] QueryOf(requests[r])[i] = "part" -> Config.part
                           [] QueryOf(requests[r])[i] = "id" -> Config.id.v
          /\ (Config.key = <<"ABC">> /\ Config.id = Some(<<"DnJgoWDxG2A">>))
                 => QueryOf(requests[r]) = ExampleQuery
    /\ (Finished /\ net = Body(OneItemDoc)) =>
          /\ Len(yielded) = 1
          /\ yielded[1].ok
          /\ Len(yielded[1].v.items) = 1
          /\ yielded[1].v.items[1].snippet.title = Some("Rust")
          /\ yielded[1].v.items[1].snippet.thumbnails.v.default.v.url
                 = "http://example/x.jpg"

C12_Witness ==
    /\ requests = <<URL \o <<"?">> \o ExampleQuery>>
    /\ net = Body(OneItemDoc)
    /\ Finished
    /\ Len(yielded) = 1
    /\ yielded[1].ok

\* C13: a finished request has yielded exactly one value, which the first
\* failing step determines: a Serialization error when the config does not
\* encode, else a Connection error when the transport failed, else a
\* Deserialization error when the body does not parse, else the Response.
\* The poll that finishes the request does not panic: a poll panics only
\* after the request has finished.
C13_FourOutcomes ==
    /\ Len(yielded) <= 1
    /\ Finished <=> Len(yielded) = 1
    /\ (last.op = "poll" /\ last.panic # NoPanic) =>
          (Finished /\ polls >= 2 /\ ~last.out.ready)
    /\ Finished =>
          IF ~UrlEncodedToString(Config).ok
          THEN /\ yielded[1]
                      = Err(SerializationContext(UrlEncodedToString(Config).e))
               /\ net.kind = "idle"
          ELSE IF net.kind = "error"
          THEN /\ ~yielded[1].ok
               /\ yielded[1].e.variant = "Connection"
          ELSE IF ~FromStr(net.body).ok
          THEN /\ ~yielded[1].ok
               /\ yielded[1].e.variant = "Deserialization"
          ELSE yielded[1] = Ok(FromStr(net.body).v)

\* Each of the four outcomes has been yielded.
C13_Witness ==
    /\ Finished
    /\ Len(yielded) = 1
    /\ ~yielded[1].ok
    /\ yielded[1].e.variant = "Deserialization"
    /\ net.body = Garbage("<html>")
    /\ last.panic = NoPanic

\* C14: a GET is issued only after the config has been encoded; when the
\* encoding fails the request is finished with a Serialization error and no
\* GET is issued, then or later; a body is parsed only after the GET.
C14_EncodeGetParse ==
    /\ requests # <<>> =>
          /\ Started
          /\ UrlEncodedToString(Config).ok
          /\ requests = <<FormatUrl(UrlEncodedToString(Config).v)>>
    /\ (Started /\ ~UrlEncodedToString(Config).ok) =>
          /\ Finished
          /\ requests = <<>>
          /\ net.kind = "idle"
          /\ Len(yielded) = 1
          /\ ~yielded[1].ok
          /\ yielded[1].e.variant = "Serialization"
    /\ (Len(yielded) >= 1
           /\ (yielded[1].ok \/ yielded[1].e.variant = "Deserialization")) =>
          /\ Len(requests) = 1
          /\ net.kind = "body"

C14_Witness ==
    /\ Started
    /\ ~UrlEncodedToString(Config).ok
    /\ polls >= 2
    /\ requests = <<>>
    /\ last.op = "poll"

\* C15: an id call before the first poll sets the id of the config to the id
\* given and leaves key and part alone; the first poll issues the GET for the
\* config held at that moment; from the first poll on no step changes the
\* config of the request or the GET issued for it.
C15_FrozenConfig ==
    [][/\ (idCalls' # idCalls /\ last'.panic = NoPanic) =>
              Config' = [Config EXCEPT !.id = Some(last'.id)]
       /\ (~Started /\ Started') =>
              /\ Config' = Config
              /\ requests' = IF UrlEncodedToString(Config).ok
                              THEN <<FormatUrl(UrlEncodedToString(Config).v)>>
                              ELSE <<>>
       /\ Started =>
              /\ Config' = Config
              /\ requests' = requests]_vars

\* An id call was made before the first poll and another one after it.
C15_Witness ==
    /\ Started
    /\ Len(requests) = 1
    /\ idCalls = 2
    /\ last.op = "id"
    /\ last.id = <<>>
    /\ Config.id = Some(<<"DnJgoWDxG2A">>)

\* The config of videos[i].
ConfigOf(i) ==
    IF videos[i].v.future.some THEN videos[i].v.future.v.data
    ELSE videos[i].v.data.v

\* What a request of config data yields when its own transport ended in n.
OutcomeOf(data, n) ==
    IF ~UrlEncodedToString(data).ok
    THEN Err(SerializationContext(UrlEncodedToString(data).e))
    ELSE IF n.kind = "error" THEN Err(FromSurfError(n.error))
    ELSE IF FromStr(n.body).ok THEN Ok(FromStr(n.body).v)
    ELSE Err(DeserializationContext(n.body, FromStr(n.body).e))

\* C16: of two Videos values polled in any interleaving, each has issued at
\* most one GET, the one for its own config; each that finished has yielded
\* the one value its own config and its own transport determine; and a step
\* of one value leaves the other value, its transport, its requests and its
\* yielded values as they were.
C16_Independent ==
    /\ [](\A i \in Instances :
            /\ videos[i].requests
                   = IF videos[i].v.future.some
                        /\ UrlEncodedToString(ConfigOf(i)).ok
                     THEN <<FormatUrl(UrlEncodedToString(ConfigOf(i)).v)>>
                     ELSE <<>>
            /\ Len(videos[i].yielded) <= 1
            /\ Len(videos[i].yielded) = 1 =>
                   /\ UrlEncodedToString(ConfigOf(i)).ok =>
                          videos[i].net.kind \in {"body", "error"}
                   /\ videos[i].yielded[1]
                          = OutcomeOf(ConfigOf(i), videos[i].net))
    /\ [][\A i \in Instances :
             videos'[i] # videos[i] =>
                 \A j \in Instances \ {i} : videos'[j] = videos[j]]_vars

\* Both values are in flight at once, and then finish with different
\* results on different URLs.
C16_Witness ==
    /\ videos # <<>>
    /\ videos[1].polls = 2
    /\ videos[2].polls = 2
    /\ videos[1].requests # videos[2].requests
    /\ Len(videos[1].yielded) = 1
    /\ Len(videos[2].yielded) = 1
    /\ videos[1].yielded[1].ok
    /\ ~videos[2].yielded[1].ok
    /\ videos[2].yielded[1].e.variant = "Connection"

\* C17: when the caller keeps polling and the transport ends the GET, a
\* request that was started is eventually finished and has yielded its one
\* value.
C17_Completes == Started ~> (Finished /\ Len(yielded) = 1)

\* The value was yielded by a poll after several that returned Pending.
C17_Witness ==
    /\ Finished
    /\ Len(yielded) = 1
    /\ polls >= 3
    /\ net.kind = "body"
    /\ last.out.ready

\* C18: while the transport has handed over neither a body nor a failure,
\* the request is in flight and has yielded nothing; every poll made then
\* returns Pending without a panic and leaves the request, its transport and
\* its GET as they were, however many polls are made; and no other step
\* moves the request out of the await while the transport stays waiting.
C18_PendingWhileWaiting ==
    /\ [](net.kind = "waiting" =>
             /\ Started
             /\ v.future.v.state = "Suspend0"
             /\ yielded = <<>>
             /\ Len(requests) = 1)
    /\ [][(net.kind = "waiting" /\ polls' # polls) =>
             /\ last'.out = PollPending
             /\ last'.panic = NoPanic
             /\ v' = v
             /\ net' = net
             /\ yielded' = yielded
             /\ requests' = requests]_vars
    /\ [][(net.kind = "waiting" /\ net'.kind = "waiting") =>
             /\ v'.future = v.future
             /\ yielded' = yielded]_vars

\* The transport is still waiting after three polls.
C18_Witness ==
    /\ net.kind = "waiting"
    /\ polls >= 3
    /\ last.op = "poll"
    /\ ~last.out.ready
    /\ alive

\* The name of the Response's field for a field of the document.
SnakeCase(name) ==
    CASE name = "nextPageToken" -> "next_page_token"
      [] name = "prevPageToken" -> "prev_page_token"
      [] name = "pageInfo" -> "page_info"
      [] name = "totalResults" -> "total_results"
      [] name = "resultsPerPage" -> "results_per_page"
      [] name = "publishedAt" -> "published_at"
      [] name = "channelId" -> "channel_id"
      [] name = "channelTitle" -> "channel_title"
      [] name = "categoryId" -> "category_id"
      [] name = "liveBroadcastContent" -> "live_broadcast_content"
      [] name = "contentDetails" -> "content_details"
      [] OTHER -> name

\* The place in a sequence that a path element names, 0 when it names none.
ItemIndex(name) ==
    CASE name = "1" -> 1
      [] name = "2" -> 2
      [] OTHER -> 0

RECURSIVE JsonAt(_, _)
\* The value of document j at path p, JAbsent when it has none.
JsonAt(j, p) ==
    IF p = <<>> THEN j
    ELSE IF j.t = "obj"
    THEN (IF p[1] \in DOMAIN j.o THEN JsonAt(j.o[p[1]], Tail(p))
          ELSE JAbsent)
    ELSE IF j.t = "arr"
    THEN (IF ItemIndex(p[1]) \in 1..Len(j.a)
          THEN JsonAt(j.a[ItemIndex(p[1])], Tail(p))
          ELSE JAbsent)
    ELSE JAbsent

RECURSIVE ResponseAt(_, _)
\* What the deserialized value r holds at the document's path p: Some of
\* it, or None when the path leads through an Option that is None or
\* beyond the end of a sequence.
ResponseAt(r, p) ==
    IF p = <<>> THEN Some(r)
    ELSE IF ItemIndex(p[1]) # 0
    THEN (IF ItemIndex(p[1]) <= Len(r)
          THEN ResponseAt(r[ItemIndex(p[1])], Tail(p))
          ELSE None)
    ELSE IF p[1] \in OptionFields
    THEN (IF r[SnakeCase(p[1])].some
          THEN ResponseAt(r[SnakeCase(p[1])].v, Tail(p))
          ELSE None)
    ELSE ResponseAt(r[SnakeCase(p[1])], Tail(p))

\* The instant an RFC 3339 timestamp of the bodies denotes, in UTC.
UtcInstant(text) ==
    IF text = "2020-01-01T01:00:00+01:00" THEN "2020-01-01T00:00:00Z"
    ELSE text

\* The Response r holds at path p what the document j has there: the
\* string or number itself (a timestamp as the instant it denotes), a
\* struct for an object, a sequence of the same length for an array, and
\* nothing where the document has nothing or a null.
Keeps(r, j, p) ==
    CASE JsonAt(j, p).t \in {"absent", "null"} -> ResponseAt(r, p) = None
      [] JsonAt(j, p).t = "str" ->
             ResponseAt(r, p)
                 = Some(IF Last(p) = "publishedAt"
                        THEN UtcInstant(JsonAt(j, p).s)
                        ELSE JsonAt(j, p).s)
      [] JsonAt(j, p).t = "num" -> ResponseAt(r, p) = Some(JsonAt(j, p).n)
      [] JsonAt(j, p).t = "arr" ->
             /\ ResponseAt(r, p).some
             /\ Len(ResponseAt(r, p).v) = Len(JsonAt(j, p).a)
      [] OTHER -> ResponseAt(r, p).some

\* C19: the Response yielded for a body that is a JSON object holds, at
\* every path of the schema, the value the body has there, and nothing
\* where the body has nothing; so every present field keeps its value,
\* every absent optional field is None, and the items are as many and in
\* the order of the body.
C19_KeepsData ==
    (Len(yielded) = 1 /\ yielded[1].ok /\ net.body.value.t = "obj") =>
        \A p \in FullPaths : Keeps(yielded[1].v, net.body.value, p)

\* A Response for a body with two items, the second with absent fields.
C19_Witness ==
    /\ Len(yielded) = 1
    /\ yielded[1].ok
    /\ net.body = Doc(FullDoc)
    /\ Len(yielded[1].v.items) = 2
    /\ yielded[1].v.items[2].id = "second"
    /\ ~yielded[1].v.items[2].snippet.thumbnails.some

====
